---- MODULE Spec2Model ----
(***************************************************************************)
(* Pixie: the tracking-pixel worker of src/src/index.ts over a key-value   *)
(* store.  Every request handler is a sequence of steps separated by the   *)
(* awaits on the store; requests interleave at those awaits and a request  *)
(* may be aborted at any of them.                                          *)
(*                                                                         *)
(* Strings are TLC strings; keys are built by concatenation exactly as in  *)
(* metaKey / eventKeyPrefix / storeEvent.  Values that TypeScript types as *)
(* string | null use NULL for null.  An optional object (PixelMeta | null) *)
(* is a sequence of length 0 or 1.                                         *)
(***************************************************************************)
EXTENDS Integers, Sequences, FiniteSets, Bags, TLC

(***************************************************************************)
(* Bounds of the model.                                                    *)
(***************************************************************************)
MaxOpens == 1        \* open requests that find their pixel, all requests interleaved
MaxRaceOpens == 3    \* the same, when opens alone run against one pixel
MaxPairOpens == 2    \* the same, where a pair of racing opens shows the case
MaxPixels == 1       \* successful creations
MaxTicks == 1        \* clock advances
ClockStart == 10     \* first value of Date.now() (two decimal digits)
MaxIpLen == 7        \* characters of a cf-connecting-ip value
MaxRefererLen == 4   \* characters of a referer value
PageLimit == 2       \* the page limit of the listing, scaled down (SpecPage)
MaxTwinPixels == 2   \* successful creations where pixels stand side by side (SpecTwins)

(***************************************************************************)
(* Program constants.                                                      *)
(***************************************************************************)
ListLimit == 1000
UserAgentMax == 256
RefererMax == 256
LanguageMax == 32

NULL == "<null>"
API_KEY_HEADER == "x-api-key"
TRANSPARENT_GIF == "GIF89a-1x1-transparent"
TRANSPARENT_GIF_byteLength == 43

(***************************************************************************)
(* Input domains.                                                          *)
(***************************************************************************)
IdSeq == <<"a1", "b2", "c3", "d4">>   \* values of randomHex(9), in order of appearance
TokenSeq == <<"tokA", "tokB", "tokC", "tokD">>  \* values of randomHex(16), likewise
DigestSeq == <<"9f2c", "41ab", "c07e", "5d13">> \* their SHA-256 digests, in hex
Ids == {IdSeq[i] : i \in 1 .. Len(IdSeq)}
Tokens == {TokenSeq[i] : i \in 1 .. Len(TokenSeq)}
Rnd == {"r1", "r2"}                  \* values randomHex(3) can return
Secret == "test-secret"
EnvKeys == {Secret, ""}              \* env.API_KEY: configured or not
ProvidedKeys == {NULL, Secret, "wrong-key"}
ProvidedTokens == {TokenSeq[i] : i \in 1 .. (MaxPixels + 1)} \cup {NULL, ""}
\* pixel id segment of the URL: the ids that can exist, one that never does,
\* and the empty segment
PathIds == {IdSeq[i] : i \in 1 .. (MaxPixels + 1)} \cup {""}
Formats == {NULL, "csv"}
Origins == {NULL}                    \* the origin header of API requests
IPv4 == <<"2", ".", "0", ".", "1", ".", "4">>
\* the headers and cf properties of an open request: a bare request, and one
\* sent by a browser through the edge.  A header that is absent is NULL (the
\* ip, kept as a sequence of characters, <<>>); cf is <<>> when the request
\* has no cf property, else <<properties>>
OpenRequests ==
    {[ip |-> <<>>, userAgent |-> NULL, referer |-> NULL, language |-> NULL, cf |-> <<>>],
     [ip |-> IPv4, userAgent |-> "Mozilla/5.0 (X11, Linux)", referer |-> "https://mail.example/",
      language |-> "en-AU", cf |-> <<[country |-> "AU", city |-> NULL, region |-> "VIC"]>>]}
Payloads == {[label |-> "promo", metadata |-> "campaign=fall"]}

Times == ClockStart .. (ClockStart + MaxTicks)

\* values of the cf-connecting-ip header, as sequences of characters
IpChars == {"1", "f", ".", ":"}
IpInputs == UNION {[1 .. n -> IpChars] : n \in 0 .. MaxIpLen}

VARIABLES
    store,      \* env.PIXIE_STORE: key -> stored JSON value
    now,        \* the wall clock read by Date.now() / new Date()
    apiKey,     \* env.API_KEY
    req,        \* the open requests in flight: a bag of their local states
    rep,        \* the report request in flight
    out,        \* the request the latest step completed, with its response
    issued,     \* history: id -> access token returned by its creation
    budget      \* open requests that may still find their pixel

vars == <<store, now, apiKey, req, rep, out, issued, budget>>

(***************************************************************************)
(* Helpers of index.ts.                                                    *)
(***************************************************************************)
\* one prefix for the events of every pixel
eventKeyPrefixShared(id) == "events:"

eventKeyPrefix(id) == "events:" \o id \o ":"

metaKey(id) == "meta:" \o id

\* the token stored as it is
sha256HexForgotten(input) == input

\* SHA-256 in hex: one digest per input, none holding its input
sha256Hex(input) ==
    IF \E i \in 1 .. Len(TokenSeq) : TokenSeq[i] = input
    THEN DigestSeq[CHOOSE i \in 1 .. Len(TokenSeq) : TokenSeq[i] = input]
    ELSE "e3b0"

\* the random suffix put before the time
EventKeySuffixFirst(id, t, r) == eventKeyPrefix(id) \o r \o "-" \o ToString(t)

\* storeEvent's key: prefix, Date.now(), "-", randomHex(3)
EventKey(id, t, r) == eventKeyPrefix(id) \o ToString(t) \o "-" \o r

\* name.startsWith(eventKeyPrefix(id)) over the keys the program writes
HasEventPrefix(k, id) == \E t \in Times, r \in Rnd : k = EventKey(id, t, r)

EventKeysOf(s, id) == {k \in DOMAIN s : HasEventPrefix(k, id)}

\* KVNamespace.put
Put(s, k, v) == [x \in DOMAIN s \cup {k} |-> IF x = k THEN v ELSE s[x]]

loadMeta(s, id) ==
    IF metaKey(id) \in DOMAIN s THEN <<s[metaKey(id)]>> ELSE <<>>

RECURSIVE Str(_)
Str(chars) == IF chars = <<>> THEN "" ELSE Head(chars) \o Str(Tail(chars))

Includes(chars, c) == \E i \in 1 .. Len(chars) : chars[i] = c

\* String.prototype.split on a one-character separator
RECURSIVE Split(_, _)
Split(chars, sep) ==
    IF ~Includes(chars, sep) THEN <<chars>>
    ELSE LET i == CHOOSE j \in 1 .. Len(chars) :
                     chars[j] = sep /\ \A h \in 1 .. (j - 1) : chars[h] # sep
         IN  <<SubSeq(chars, 1, i - 1)>> \o Split(SubSeq(chars, i + 1, Len(chars)), sep)

RECURSIVE Join(_, _)
Join(segments, sep) ==
    IF segments = <<>> THEN <<>>
    ELSE IF Len(segments) = 1 THEN segments[1]
    ELSE segments[1] \o <<sep>> \o Join(Tail(segments), sep)

Max2(a, b) == IF a > b THEN a ELSE b

\* the address returned as it came
anonymizeIpKeepsHost(ip) ==
    IF ip = <<>> THEN NULL
    ELSE IF Includes(ip, ".") /\ Len(Split(ip, ".")) = 4 THEN Str(ip)
    ELSE IF Includes(ip, ":") THEN Str(ip)
    ELSE NULL

anonymizeIp(ip) ==
    IF ip = <<>> THEN NULL
    ELSE IF Includes(ip, ".") /\ Len(Split(ip, ".")) = 4
    THEN Str(Join([Split(ip, ".") EXCEPT ![4] = <<"0">>], "."))
    ELSE IF Includes(ip, ":")
    THEN LET segments == Split(ip, ":")
             first == Max2(0, Len(segments) - 4) + 1
         IN  Str(Join([i \in 1 .. Len(segments) |->
                          IF i >= first THEN <<"0", "0", "0", "0">> ELSE segments[i]], ":"))
    ELSE NULL

Ellipsis == "~"   \* the one character U+2026

\* !value, for a value of type string | null
Falsy(value) == value = NULL \/ value = ""

truncate(value, max) ==
    IF Falsy(value) THEN NULL
    ELSE IF Len(value) > max THEN SubSeq(value, 1, max - 1) \o Ellipsis ELSE value

\* <<>> for null, else <<geo>>; a field that is undefined (and so left out of
\* the stored JSON) is NULL
sanitizeGeo(cf) ==
    IF cf = <<>> THEN <<>>
    ELSE IF Falsy(cf[1].country) /\ Falsy(cf[1].city) /\ Falsy(cf[1].region) THEN <<>>
    ELSE <<[country |-> cf[1].country, city |-> cf[1].city, region |-> cf[1].region]>>

\* t is the instant new Date() reads; the timestamp is kept as that instant,
\* which toISOString writes and new Date(...).getTime() reads back
buildEventRecord(t, request) ==
    [timestamp |-> t,
     anonymizedIp |-> anonymizeIp(request.ip),
     userAgent |-> truncate(request.userAgent, UserAgentMax),
     referer |-> truncate(request.referer, RefererMax),
     language |-> truncate(request.language, LanguageMax),
     geo |-> sanitizeGeo(request.cf)]

\* the metadata returned whole
sanitizeMetaKeepsHash(meta) == meta

sanitizeMeta(meta) == [f \in DOMAIN meta \ {"tokenHash"} |-> meta[f]]

(***************************************************************************)
(* Responses.                                                              *)
(***************************************************************************)
corsHeaders(origin) ==
    [allowOrigin |-> IF origin = NULL THEN "*" ELSE origin,
     allowMethods |-> "GET,HEAD,POST,OPTIONS",
     allowHeaders |-> API_KEY_HEADER \o ", content-type"]

TextResponse(text, status) ==
    [status |-> status, type |-> "text", body |-> text]

jsonResponse(data, status, origin) ==
    [status |-> status, type |-> "json", contentType |-> "application/json;charset=utf-8",
     cors |-> corsHeaders(origin), body |-> data]

\* an unknown pixel answered Not Found
PixelResponseTellsMissing(meta, isHead) ==
    IF meta = <<>> THEN [status |-> 404, type |-> "text", body |-> "Not Found"]
    ELSE [status |-> 200, type |-> "gif",
          headers |-> [cacheControl |-> "no-store, must-revalidate",
                       contentType |-> "image/gif",
                       contentLength |-> 43,
                       allowOrigin |-> "*"],
          body |-> IF isHead THEN NULL ELSE "GIF89a-1x1-transparent"]

\* servePixel, lines 148-159; meta is the local the handler holds there
PixelResponse(meta, isHead) ==
    [status |-> 200, type |-> "gif",
     headers |-> [cacheControl |-> "no-store, must-revalidate",
                  contentType |-> "image/gif",
                  contentLength |-> TRANSPARENT_GIF_byteLength,
                  allowOrigin |-> "*"],
     body |-> IF isHead THEN NULL ELSE TRANSPARENT_GIF]

\* the key compared with nothing
validateApiKeyAnyKey(providedKey, envKey) ==
    IF envKey = "" THEN <<[status |-> 500, type |-> "text",
                           body |-> "Server misconfigured: missing API_KEY"]>>
    ELSE <<>>

\* validateApiKey: <<>> for null, else the error response
validateApiKey(providedKey, envKey) ==
    IF envKey = "" THEN <<TextResponse("Server misconfigured: missing API_KEY", 500)>>
    ELSE IF providedKey = NULL \/ providedKey = "" \/ providedKey # envKey
    THEN <<TextResponse("Unauthorized", 401)>>
    ELSE <<>>

\* the creation counted as an open
NewMetaCounted(id, createdAt, payload, tokenHash) ==
    [id |-> id, createdAt |-> createdAt, label |-> payload.label,
     metadata |-> payload.metadata, tokenHash |-> tokenHash, openCount |-> 1]

\* createPixel, lines 78-85
NewMeta(id, createdAt, payload, tokenHash) ==
    LET base == [id |-> id,
                 createdAt |-> createdAt,
                 label |-> IF "label" \in DOMAIN payload THEN payload.label ELSE NULL,
                 tokenHash |-> tokenHash,
                 openCount |-> 0]
    IN  IF "metadata" \in DOMAIN payload
        THEN [f \in DOMAIN base \cup {"metadata"} |->
                 IF f = "metadata" THEN payload.metadata ELSE base[f]]
        ELSE base

\* createPixel, lines 89-95
CreateBody(id, createdAt, accessToken) ==
    [id |-> id,
     createdAt |-> createdAt,
     pixelUrl |-> "/pixel/" \o id \o ".gif",
     eventsUrl |-> "/api/pixels/" \o id \o "?token=" \o accessToken,
     accessToken |-> accessToken]

\* openCount = 1 in place of openCount += 1
OpenedMetaSetToOne(meta, event) ==
    [f \in DOMAIN meta \cup {"lastOpenedAt"} |->
        IF f = "openCount" THEN 1
        ELSE IF f = "lastOpenedAt" THEN event.timestamp
        ELSE meta[f]]

\* the metadata rebuilt from the counters, the label lost
OpenedMetaDropsLabel(meta, event) ==
    [f \in DOMAIN meta \cup {"lastOpenedAt"} |->
        IF f = "openCount" THEN meta.openCount + 1
        ELSE IF f = "lastOpenedAt" THEN event.timestamp
        ELSE IF f = "label" THEN NULL
        ELSE meta[f]]

\* openCount raised by two
OpenedMetaCountsTwice(meta, event) ==
    [f \in DOMAIN meta \cup {"lastOpenedAt"} |->
        IF f = "openCount" THEN meta.openCount + 2
        ELSE IF f = "lastOpenedAt" THEN event.timestamp
        ELSE meta[f]]

\* servePixel, lines 143-144
OpenedMeta(meta, event) ==
    [f \in DOMAIN meta \cup {"lastOpenedAt"} |->
        IF f = "openCount" THEN meta.openCount + 1
        ELSE IF f = "lastOpenedAt" THEN event.timestamp
        ELSE meta[f]]

\* a missing token not refused
TokenRejectedWhenGiven(providedToken, meta) ==
    providedToken # NULL /\ providedToken # "" /\ sha256Hex(providedToken) # meta.tokenHash

\* getPixelReport, line 112
\* any pixel's token accepted
TokenRejectedUnlessIssued(providedToken, meta) ==
    \/ providedToken = NULL
    \/ providedToken = ""
    \/ \A i \in 1 .. Len(DigestSeq) : sha256Hex(providedToken) # DigestSeq[i]

TokenRejected(providedToken, meta) ==
    providedToken = NULL \/ providedToken = "" \/ sha256Hex(providedToken) # meta.tokenHash

(***************************************************************************)
(* Report assembly.                                                        *)
(***************************************************************************)
Min2(a, b) == IF a < b THEN a ELSE b

\* the orders in which a list call can return a set of keys
Orderings(S) ==
    {q \in [1 .. Cardinality(S) -> S] : \A i, j \in 1 .. Cardinality(S) : i # j => q[i] # q[j]}

\* PIXIE_STORE.list({ prefix, limit }): the keys of one page, at most limit
ListPages(s, id, limit) ==
    {page \in SUBSET EventKeysOf(s, id) :
        Cardinality(page) = Min2(Cardinality(EventKeysOf(s, id)), limit)}

\* Array.prototype.sort with the comparator of line 193 (stable)
RECURSIVE InsertByTimestamp(_, _)
InsertByTimestamp(sorted, e) ==
    IF sorted = <<>> THEN <<e>>
    ELSE IF sorted[Len(sorted)].timestamp <= e.timestamp THEN Append(sorted, e)
    ELSE Append(InsertByTimestamp(SubSeq(sorted, 1, Len(sorted) - 1), e), sorted[Len(sorted)])

\* the events left in the order of the listing
SortByTimestampKeepsOrder(events) == events

RECURSIVE SortByTimestamp(_)
SortByTimestamp(events) ==
    IF events = <<>> THEN <<>>
    ELSE InsertByTimestamp(SortByTimestamp(SubSeq(events, 1, Len(events) - 1)),
                           events[Len(events)])

\* loadEvents, lines 188-193: get every listed key, drop the missing, sort;
\* keys is the page in the order the list call returned it
FetchEvents(s, keys) ==
    LET present == SelectSeq(keys, LAMBDA k : k \in DOMAIN s)
    IN  SortByTimestamp([i \in 1 .. Len(present) |-> s[present[i]]])

\* String.prototype.includes
Contains(hay, needle) ==
    \E i \in 1 .. (Len(hay) - Len(needle) + 1) : SubSeq(hay, i, i + Len(needle) - 1) = needle

\* value.replace(/"/g, '""')
RECURSIVE DoubleQuotes(_)
DoubleQuotes(value) ==
    IF value = "" THEN ""
    ELSE (IF SubSeq(value, 1, 1) = "\"" THEN "\"\"" ELSE SubSeq(value, 1, 1))
             \o DoubleQuotes(SubSeq(value, 2, Len(value)))

\* the quotes of a quoted field left single
escapeCsvNoDoubling(value) ==
    IF Falsy(value) THEN ""
    ELSE IF Contains(value, ",") \/ Contains(value, "\n") THEN "\"" \o value \o "\""
    ELSE DoubleQuotes(value)

escapeCsv(value) ==
    IF Falsy(value) THEN ""
    ELSE IF Contains(DoubleQuotes(value), ",") \/ Contains(DoubleQuotes(value), "\n")
    THEN "\"" \o DoubleQuotes(value) \o "\""
    ELSE DoubleQuotes(value)

\* value ?? ""
OrEmpty(value) == IF value = NULL THEN "" ELSE value

\* Array.prototype.join over strings
RECURSIVE JoinStrings(_, _)
JoinStrings(strings, sep) ==
    IF strings = <<>> THEN ""
    ELSE IF Len(strings) = 1 THEN strings[1]
    ELSE strings[1] \o sep \o JoinStrings(Tail(strings), sep)

CsvHeader ==
    <<"timestamp", "anonymizedIp", "userAgent", "referer", "language", "country", "region", "city">>

\* event.geo?.field ?? ""
GeoField(event, field) == IF event.geo = <<>> THEN "" ELSE OrEmpty(event.geo[1][field])

CsvRow(event) ==
    <<ToString(event.timestamp), OrEmpty(event.anonymizedIp), escapeCsv(event.userAgent),
      escapeCsv(event.referer), escapeCsv(event.language), GeoField(event, "country"),
      GeoField(event, "region"), GeoField(event, "city")>>

buildCsv(meta, events) ==
    JoinStrings(<<JoinStrings(CsvHeader, ",")>>
                    \o [i \in 1 .. Len(events) |-> JoinStrings(CsvRow(events[i]), ",")],
                "\n")

CsvResponse(id, csv, origin) ==
    [status |-> 200, type |-> "csv", contentType |-> "text/csv;charset=utf-8",
     contentDisposition |-> "attachment; filename=\"" \o id \o "-events.csv\"",
     cors |-> corsHeaders(origin), body |-> csv]

(***************************************************************************)
(* State.                                                                  *)
(***************************************************************************)
Idle == [kind |-> "idle", pc |-> "idle"]

NoOutput == [kind |-> "none"]

Init ==
    /\ store = [k \in {} |-> NULL]
    /\ now = ClockStart
    /\ apiKey \in EnvKeys
    /\ req = EmptyBag
    /\ rep = Idle
    /\ out = NoOutput
    /\ issued = [i \in {} |-> NULL]
    /\ budget = MaxOpens

\* A request answered at its first await reads the store once and writes
\* nothing.  The client sends such a request when nothing else is in flight:
\* every store a request can see is the store of such a state, since AbortOpen
\* and AbortReport empty req and rep without touching the store.
Quiet == req = EmptyBag /\ rep = Idle

OpenInFlight(id) == \E q \in BagToSet(req) : q.id = id

Enter(q) == req (+) SetToBag({q})

Leave(q) == req (-) SetToBag({q})

\* the clock advances between any two steps
Tick ==
    /\ now < ClockStart + MaxTicks
    /\ now' = now + 1
    /\ out' = NoOutput
    /\ UNCHANGED <<store, apiKey, req, rep, issued, budget>>

(***************************************************************************)
(* POST /api/pixels: fetch lines 52-56 and createPixel.                    *)
(***************************************************************************)
CreateRejected(providedKey) ==
    /\ Quiet
    /\ validateApiKey(providedKey, apiKey) # <<>>
    /\ out' = [kind |-> "create", providedKey |-> providedKey,
               resp |-> validateApiKey(providedKey, apiKey)[1]]
    /\ UNCHANGED <<store, now, apiKey, req, rep, issued, budget>>

\* randomHex(9) and randomHex(16) return values not returned before: the
\* n-th creation draws the n-th id and the n-th token
CreateWithin(limit, providedKey, payload, origin) ==
    /\ validateApiKey(providedKey, apiKey) = <<>>
    /\ Cardinality(DOMAIN issued) < limit
    /\ LET id == IdSeq[Cardinality(DOMAIN issued) + 1]
           accessToken == TokenSeq[Cardinality(DOMAIN issued) + 1]
           tokenHash == sha256Hex(accessToken)
           createdAt == now
           meta == NewMeta(id, createdAt, payload, tokenHash)
       IN  /\ store' = Put(store, metaKey(id), meta)
           /\ out' = [kind |-> "create", providedKey |-> providedKey,
                      resp |-> jsonResponse(CreateBody(id, createdAt, accessToken), 201, origin)]
           /\ issued' = [i \in DOMAIN issued \cup {id} |->
                            IF i = id THEN accessToken ELSE issued[i]]
    /\ UNCHANGED <<now, apiKey, req, rep, budget>>

\* createPixel, at most MaxPixels times
CreatePixel(providedKey, payload, origin) ==
    CreateWithin(MaxPixels, providedKey, payload, origin)

(***************************************************************************)
(* GET|HEAD /pixel/<id>.gif: servePixel.                                   *)
(***************************************************************************)
\* the open of an unknown id recorded like any other
OpenUnknownRecorded(id, isHead) ==
    /\ Quiet
    /\ loadMeta(store, id) = <<>>
    /\ store' = Put(store, EventKey(id, now, "r1"),
                    buildEventRecord(now, [ip |-> <<>>, userAgent |-> NULL, referer |-> NULL,
                                           language |-> NULL, cf |-> <<>>]))
    /\ out' = [kind |-> "open", id |-> id, isHead |-> isHead, found |-> FALSE,
               resp |-> PixelResponse(loadMeta(store, id), isHead)]
    /\ UNCHANGED <<now, apiKey, req, rep, issued, budget>>

\* line 138 with no metadata found: lines 148-159 follow at once
OpenUnknown(id, isHead) ==
    /\ Quiet
    /\ loadMeta(store, id) = <<>>
    /\ out' = [kind |-> "open", id |-> id, isHead |-> isHead, found |-> FALSE,
               resp |-> PixelResponse(loadMeta(store, id), isHead)]
    /\ UNCHANGED <<store, now, apiKey, req, rep, issued, budget>>

\* line 138: await loadMeta
OpenLoad(id) ==
    /\ budget > 0
    /\ loadMeta(store, id) # <<>>
    /\ req' = Enter([pc |-> "loaded", id |-> id, meta |-> loadMeta(store, id)[1]])
    /\ budget' = budget - 1
    /\ out' = NoOutput
    /\ UNCHANGED <<store, now, apiKey, rep, issued>>

\* storeEvent, line 181
StoreEventKey(id, t, rnd) == EventKey(id, t, rnd)

\* the metadata written where the event should be
OpenStoreEventMetaFirst(q, request, rnd) ==
    /\ q \in BagToSet(req) /\ q.pc = "loaded"
    /\ LET event == buildEventRecord(now, request)
       IN  /\ store' = Put(store, metaKey(q.id), OpenedMeta(q.meta, event))
           /\ req' = Leave(q) (+) SetToBag({[pc |-> "stored", id |-> q.id, meta |-> q.meta,
                                             event |-> event]})
    /\ out' = NoOutput
    /\ UNCHANGED <<now, apiKey, rep, issued, budget>>

\* lines 141-142: buildEventRecord reads the clock and the headers, storeEvent
\* reads the clock again and puts the event
OpenStoreEvent(q, request, rnd) ==
    /\ q \in BagToSet(req) /\ q.pc = "loaded"
    /\ LET event == buildEventRecord(now, request)
       IN  /\ store' = Put(store, StoreEventKey(q.id, now, rnd), event)
           /\ req' = Leave(q) (+) SetToBag({[pc |-> "stored", id |-> q.id, meta |-> q.meta,
                                             event |-> event]})
    /\ out' = NoOutput
    /\ UNCHANGED <<now, apiKey, rep, issued, budget>>

\* lines 143-159
OpenPutMeta(q, isHead) ==
    /\ q \in BagToSet(req) /\ q.pc = "stored"
    /\ store' = Put(store, metaKey(q.id), OpenedMeta(q.meta, q.event))
    /\ out' = [kind |-> "open", id |-> q.id, isHead |-> isHead, found |-> TRUE,
               resp |-> PixelResponse(<<q.meta>>, isHead)]
    /\ req' = Leave(q)
    /\ UNCHANGED <<now, apiKey, rep, issued, budget>>

\* the transport drops an open request at one of its awaits
AbortOpen(q) ==
    /\ q \in BagToSet(req)
    /\ req' = Leave(q)
    /\ out' = NoOutput
    /\ UNCHANGED <<store, now, apiKey, rep, issued, budget>>

(***************************************************************************)
(* GET /api/pixels/<id>: getPixelReport.                                   *)
(***************************************************************************)
\* the report refused when the server has no secret
ReportEarlyNeedsSecret(id, providedToken) ==
    IF apiKey = "" THEN <<TextResponse("Server misconfigured: missing API_KEY", 500)>>
    ELSE IF id = "" THEN <<TextResponse("Missing pixel id", 400)>>
    ELSE IF loadMeta(store, id) = <<>> THEN <<TextResponse("Pixel not found", 404)>>
    ELSE IF TokenRejected(providedToken, loadMeta(store, id)[1])
    THEN <<TextResponse("Unauthorized", 401)>>
    ELSE <<>>

\* the token looked at before the metadata
ReportEarlyTokenFirst(id, providedToken) ==
    IF id = "" THEN <<TextResponse("Missing pixel id", 400)>>
    ELSE IF Falsy(providedToken) THEN <<TextResponse("Unauthorized", 401)>>
    ELSE IF loadMeta(store, id) = <<>> THEN <<TextResponse("Pixel not found", 404)>>
    ELSE IF TokenRejected(providedToken, loadMeta(store, id)[1])
    THEN <<TextResponse("Unauthorized", 401)>>
    ELSE <<>>

\* lines 101-114 when the request ends there
ReportEarly(id, providedToken) ==
    IF id = "" THEN <<TextResponse("Missing pixel id", 400)>>
    ELSE IF loadMeta(store, id) = <<>> THEN <<TextResponse("Pixel not found", 404)>>
    ELSE IF TokenRejected(providedToken, loadMeta(store, id)[1])
    THEN <<TextResponse("Unauthorized", 401)>>
    ELSE <<>>

ReportRejected(id, providedToken) ==
    /\ Quiet
    /\ ReportEarly(id, providedToken) # <<>>
    /\ out' = [kind |-> "report", id |-> id, token |-> providedToken,
               found |-> (id # "" /\ loadMeta(store, id) # <<>>),
               resp |-> ReportEarly(id, providedToken)[1]]
    /\ UNCHANGED <<store, now, apiKey, req, rep, issued, budget>>

\* lines 101-116: the token is accepted
ReportLoad(id, providedToken) ==
    /\ rep = Idle
    /\ ReportEarly(id, providedToken) = <<>>
    /\ rep' = [kind |-> "report", pc |-> "authed", id |-> id, token |-> providedToken,
               meta |-> loadMeta(store, id)[1]]
    /\ out' = NoOutput
    /\ UNCHANGED <<store, now, apiKey, req, issued, budget>>

\* the listing followed to its end
ReportListChasesCursor(limit) ==
    /\ rep.kind = "report" /\ rep.pc = "authed"
    /\ rep' = [kind |-> "report", pc |-> "listed", id |-> rep.id, token |-> rep.token,
               meta |-> rep.meta, keys |-> EventKeysOf(store, rep.id)]
    /\ out' = NoOutput
    /\ UNCHANGED <<store, now, apiKey, req, issued, budget>>

\* loadEvents, line 187: await list, one call with the given limit
ReportListWith(limit) ==
    /\ rep.kind = "report" /\ rep.pc = "authed"
    /\ \E page \in ListPages(store, rep.id, limit) :
           rep' = [kind |-> "report", pc |-> "listed", id |-> rep.id, token |-> rep.token,
                   meta |-> rep.meta, keys |-> page]
    /\ out' = NoOutput
    /\ UNCHANGED <<store, now, apiKey, req, issued, budget>>

\* loadEvents, line 187, with the limit the program passes
ReportList == ReportListWith(ListLimit)

\* getPixelReport, lines 119-130
ReportResponse(id, format, meta, events, origin) ==
    IF format = "csv" THEN CsvResponse(id, buildCsv(meta, events), origin)
    ELSE jsonResponse([meta |-> sanitizeMeta(meta), events |-> events], 200, origin)

\* the report counted as an open
ReportFinishCountsRead(format, keys, origin) ==
    /\ rep.kind = "report" /\ rep.pc = "listed"
    /\ keys \in Orderings(rep.keys)
    /\ LET events == FetchEvents(store, keys)
       IN  out' = [kind |-> "report", id |-> rep.id, token |-> rep.token,
                   format |-> format, found |-> TRUE, loaded |-> rep.meta,
                   events |-> events,
                   resp |-> ReportResponse(rep.id, format, rep.meta, events, origin)]
    /\ store' = Put(store, metaKey(rep.id),
                    [rep.meta EXCEPT !.openCount = rep.meta.openCount + 1])
    /\ rep' = Idle
    /\ UNCHANGED <<now, apiKey, req, issued, budget>>

\* loadEvents, lines 188-193, then lines 119-130; the order of the page is
\* first observed here
ReportFinish(format, keys, origin) ==
    /\ rep.kind = "report" /\ rep.pc = "listed"
    /\ keys \in Orderings(rep.keys)
    /\ LET events == FetchEvents(store, keys)
       IN  out' = [kind |-> "report", id |-> rep.id, token |-> rep.token,
                   format |-> format, found |-> TRUE, loaded |-> rep.meta,
                   events |-> events,
                   resp |-> ReportResponse(rep.id, format, rep.meta, events, origin)]
    /\ rep' = Idle
    /\ UNCHANGED <<store, now, apiKey, req, issued, budget>>

\* the transport drops the report request at one of its awaits
AbortReport ==
    /\ rep.kind = "report"
    /\ rep' = Idle
    /\ out' = NoOutput
    /\ UNCHANGED <<store, now, apiKey, req, issued, budget>>

Next ==
    \/ Tick
    \/ \E k \in ProvidedKeys : CreateRejected(k)
    \/ \E k \in ProvidedKeys, p \in Payloads, o \in Origins : CreatePixel(k, p, o)
    \/ \E id \in PathIds, h \in BOOLEAN : OpenUnknown(id, h)
    \/ \E id \in PathIds : OpenLoad(id)
    \/ \E q \in BagToSet(req), r \in OpenRequests, rnd \in Rnd : OpenStoreEvent(q, r, rnd)
    \/ \E q \in BagToSet(req), h \in BOOLEAN : OpenPutMeta(q, h)
    \/ \E q \in BagToSet(req) : AbortOpen(q)
    \/ \E id \in PathIds, t \in ProvidedTokens : ReportRejected(id, t)
    \/ \E id \in PathIds, t \in ProvidedTokens : ReportLoad(id, t)
    \/ ReportList
    \/ \E f \in Formats, o \in Origins :
           \E keys \in Orderings(IF rep.pc = "listed" THEN rep.keys ELSE {}) :
               ReportFinish(f, keys, o)
    \/ AbortReport

Spec == Init /\ [][Next]_vars

(***************************************************************************)
(* Opens alone, against one pixel: racing (SpecRace) or one after another  *)
(* (SpecSeq).                                                              *)
(***************************************************************************)
InitRace ==
    /\ store = [k \in {} |-> NULL]
    /\ now = ClockStart
    /\ apiKey = Secret
    /\ req = EmptyBag
    /\ rep = Idle
    /\ out = NoOutput
    /\ issued = [i \in {} |-> NULL]
    /\ budget = MaxRaceOpens

CreateFirst(payload) == DOMAIN issued = {} /\ CreatePixel(Secret, payload, NULL)

NextRace ==
    \/ Tick
    \/ \E p \in Payloads : CreateFirst(p)
    \/ \E id \in PathIds : OpenLoad(id)
    \/ \E q \in BagToSet(req), r \in OpenRequests, rnd \in Rnd : OpenStoreEvent(q, r, rnd)
    \/ \E q \in BagToSet(req), h \in BOOLEAN : OpenPutMeta(q, h)
    \/ \E q \in BagToSet(req) : AbortOpen(q)

SpecRace == InitRace /\ [][NextRace]_vars

\* the same race with fewer opens
InitPair ==
    /\ store = [k \in {} |-> NULL]
    /\ now = ClockStart
    /\ apiKey = Secret
    /\ req = EmptyBag
    /\ rep = Idle
    /\ out = NoOutput
    /\ issued = [i \in {} |-> NULL]
    /\ budget = MaxPairOpens

SpecPair == InitPair /\ [][NextRace]_vars

\* racing opens that all run to their end
NextConc ==
    \/ Tick
    \/ \E p \in Payloads : CreateFirst(p)
    \/ \E id \in PathIds : OpenLoad(id)
    \/ \E q \in BagToSet(req), r \in OpenRequests, rnd \in Rnd : OpenStoreEvent(q, r, rnd)
    \/ \E q \in BagToSet(req), h \in BOOLEAN : OpenPutMeta(q, h)

SpecConc == InitRace /\ [][NextConc]_vars

\* the client sends an open when the one before it has been answered
OpenAlone(id) == req = EmptyBag /\ OpenLoad(id)

NextSeq ==
    \/ Tick
    \/ \E p \in Payloads : CreateFirst(p)
    \/ \E id \in PathIds : OpenAlone(id)
    \/ \E q \in BagToSet(req), r \in OpenRequests, rnd \in Rnd : OpenStoreEvent(q, r, rnd)
    \/ \E q \in BagToSet(req), h \in BOOLEAN : OpenPutMeta(q, h)

SpecSeq == InitRace /\ [][NextSeq]_vars

(***************************************************************************)
(* Opens of one pixel, one after another, and reports of it (SpecReport).  *)
(***************************************************************************)
NextReport ==
    \/ Tick
    \/ \E p \in Payloads : CreateFirst(p)
    \/ \E id \in PathIds : OpenAlone(id)
    \/ \E q \in BagToSet(req), r \in OpenRequests, rnd \in Rnd : OpenStoreEvent(q, r, rnd)
    \/ \E q \in BagToSet(req), h \in BOOLEAN : OpenPutMeta(q, h)
    \/ \E id \in PathIds, t \in ProvidedTokens : ReportLoad(id, t)
    \/ ReportList
    \/ \E f \in Formats, o \in Origins :
           \E keys \in Orderings(IF rep.pc = "listed" THEN rep.keys ELSE {}) :
               ReportFinish(f, keys, o)

SpecReport == InitPair /\ [][NextReport]_vars

(***************************************************************************)
(* Opens of one pixel and reports of it, each request alone, the listing   *)
(* limited to PageLimit keys in place of ListLimit (SpecPage).             *)
(***************************************************************************)
OpenBetweenReports(id) == rep = Idle /\ OpenAlone(id)

ReportBetweenOpens(id, providedToken) == req = EmptyBag /\ ReportLoad(id, providedToken)

NextPage ==
    \/ Tick
    \/ \E p \in Payloads : CreateFirst(p)
    \/ \E id \in PathIds : OpenBetweenReports(id)
    \/ \E q \in BagToSet(req), r \in OpenRequests, rnd \in Rnd : OpenStoreEvent(q, r, rnd)
    \/ \E q \in BagToSet(req), h \in BOOLEAN : OpenPutMeta(q, h)
    \/ \E id \in PathIds, t \in ProvidedTokens : ReportBetweenOpens(id, t)
    \/ ReportListWith(PageLimit)
    \/ \E f \in Formats, o \in Origins :
           \E keys \in Orderings(IF rep.pc = "listed" THEN rep.keys ELSE {}) :
               ReportFinish(f, keys, o)

SpecPage == InitRace /\ [][NextPage]_vars

(***************************************************************************)
(* Several pixels side by side: creations, racing opens and, while no     *)
(* open is in flight, reports of them, the report token drawn from the     *)
(* values of ProvidedTokens and the API key, all within one millisecond    *)
(* (SpecTwins).                                                            *)
(***************************************************************************)
OpenBesideOpens(id) == rep = Idle /\ OpenLoad(id)

TwinTokens == ProvidedTokens \cup {Secret}

CreateTwin(payload) == CreateWithin(MaxTwinPixels, Secret, payload, NULL)

NextTwins ==
    \/ \E p \in Payloads : CreateTwin(p)
    \/ \E id \in PathIds : OpenBesideOpens(id)
    \/ \E q \in BagToSet(req), r \in OpenRequests, rnd \in Rnd : OpenStoreEvent(q, r, rnd)
    \/ \E q \in BagToSet(req), h \in BOOLEAN : OpenPutMeta(q, h)
    \/ \E id \in PathIds, t \in TwinTokens : ReportRejected(id, t)
    \/ \E id \in PathIds, t \in TwinTokens : ReportBetweenOpens(id, t)
    \/ ReportList
    \/ \E f \in Formats, o \in Origins :
           \E keys \in Orderings(IF rep.pc = "listed" THEN rep.keys ELSE {}) :
               ReportFinish(f, keys, o)

SpecTwins == InitPair /\ [][NextTwins]_vars

(***************************************************************************)
(* One pixel under a secret that deployments set and unset (SpecEnv): env  *)
(* is an argument of every fetch call and API_KEY need not be the same in  *)
(* two of them.                                                            *)
(***************************************************************************)
Redeploy ==
    /\ apiKey' \in EnvKeys \ {apiKey}
    /\ out' = NoOutput
    /\ UNCHANGED <<store, now, req, rep, issued, budget>>

CreateOne(providedKey, payload, origin) ==
    DOMAIN issued = {} /\ CreatePixel(providedKey, payload, origin)

NextEnv ==
    \/ Redeploy
    \/ Tick
    \/ \E k \in ProvidedKeys : CreateRejected(k)
    \/ \E k \in ProvidedKeys, p \in Payloads, o \in Origins : CreateOne(k, p, o)
    \/ \E id \in PathIds, h \in BOOLEAN : OpenUnknown(id, h)
    \/ \E id \in PathIds : OpenLoad(id)
    \/ \E q \in BagToSet(req), r \in OpenRequests, rnd \in Rnd : OpenStoreEvent(q, r, rnd)
    \/ \E q \in BagToSet(req), h \in BOOLEAN : OpenPutMeta(q, h)
    \/ \E id \in PathIds, t \in ProvidedTokens : ReportRejected(id, t)
    \/ \E id \in PathIds, t \in ProvidedTokens : ReportLoad(id, t)
    \/ ReportList
    \/ \E f \in Formats, o \in Origins :
           \E keys \in Orderings(IF rep.pc = "listed" THEN rep.keys ELSE {}) :
               ReportFinish(f, keys, o)

SpecEnv == Init /\ [][NextEnv]_vars

(***************************************************************************)
(* anonymizeIp alone, applied once to any header value of up to MaxIpLen    *)
(* characters.                                                             *)
(***************************************************************************)
AnonymizeStep(ip) ==
    /\ out = NoOutput
    /\ out' = [kind |-> "anonymizeIp", ip |-> ip, result |-> anonymizeIp(ip)]
    /\ UNCHANGED <<store, now, apiKey, req, rep, issued, budget>>

NextIp == \E ip \in (IF out = NoOutput THEN IpInputs ELSE {}) : AnonymizeStep(ip)

SpecIp == InitRace /\ [][NextIp]_vars

(***************************************************************************)
(* buildCsv alone: the CSV of one event whose referer is any string of up  *)
(* to MaxRefererLen characters, built once.                                *)
(***************************************************************************)
RefererChars == {"a", ",", "\""}
RefererInputs ==
    {JoinStrings(chars, "") : chars \in UNION {[1 .. n -> RefererChars] : n \in 0 .. MaxRefererLen}}

CsvStep(request, referer) ==
    /\ out = NoOutput
    /\ LET event == buildEventRecord(now, [request EXCEPT !.referer = referer])
           meta == NewMeta(IdSeq[1], now, [label |-> "promo"], sha256Hex(TokenSeq[1]))
       IN  out' = [kind |-> "csv", event |-> event, field |-> CsvRow(event)[4],
                   csv |-> buildCsv(meta, <<event>>)]
    /\ UNCHANGED <<store, now, apiKey, req, rep, issued, budget>>

NextCsv ==
    \E request \in OpenRequests :
        \E referer \in (IF out = NoOutput THEN RefererInputs ELSE {}) : CsvStep(request, referer)

SpecCsv == InitRace /\ [][NextCsv]_vars

(***************************************************************************)
(* Vocabulary of the claims.                                               *)
(***************************************************************************)
Created == DOMAIN issued

StoredMeta(id) == store[metaKey(id)]

EventKeys == {k \in DOMAIN store : \E id \in Ids : HasEventPrefix(k, id)}

\* the string-valued fields of the stored values and of the response bodies
StringFields ==
    {"id", "label", "metadata", "tokenHash", "anonymizedIp", "userAgent", "referer",
     "language", "pixelUrl", "eventsUrl", "accessToken"}

Strings(record) ==
    {record[f] : f \in DOMAIN record \cap StringFields}
        \cup (IF "geo" \in DOMAIN record /\ record.geo # <<>>
              THEN {record.geo[1][f] : f \in DOMAIN record.geo[1]}
              ELSE {})

SeqStrings(records) == UNION {Strings(records[i]) : i \in 1 .. Len(records)}

StoredStrings == UNION {Strings(store[k]) : k \in DOMAIN store}

StoredHashes == {StoredMeta(id).tokenHash : id \in Created}

\* every string a response body carries
BodyStrings(resp) ==
    IF resp.type = "json" /\ "events" \in DOMAIN resp.body
    THEN Strings(resp.body.meta) \cup SeqStrings(resp.body.events)
    ELSE IF resp.type = "json" THEN Strings(resp.body)
    ELSE {resp.body}

\* one of the strings holds one of the needles
Holds(strings, needles) == \E s \in strings, n \in needles : Contains(s, n)

\* the token of a report request is missing, empty, or not the pixel's
BadToken(id, token) ==
    \/ token = NULL
    \/ token = ""
    \/ id \notin Created
    \/ sha256Hex(token) # StoredMeta(id).tokenHash

FrozenFields == {"id", "createdAt", "label", "metadata", "tokenHash"}

\* the characters of the store's keys, in code-unit order
CharOrder == "-0123456789:abcdefghijklmnopqrstuvwxyz"

CharRank(c) == CHOOSE i \in 1 .. Len(CharOrder) : SubSeq(CharOrder, i, i) = c

\* a < b in the lexicographic order of the store's key listing
RECURSIVE StrLess(_, _)
StrLess(a, b) ==
    IF b = "" THEN FALSE
    ELSE IF a = "" THEN TRUE
    ELSE IF SubSeq(a, 1, 1) # SubSeq(b, 1, 1)
    THEN CharRank(SubSeq(a, 1, 1)) < CharRank(SubSeq(b, 1, 1))
    ELSE StrLess(SubSeq(a, 2, Len(a)), SubSeq(b, 2, Len(b)))

\* the event keys a step writes for the first time
NewEventKeys(id) == EventKeysOf(store', id) \ EventKeysOf(store, id)

(***************************************************************************)
(* C1.  After a creation and N opens of the pixel performed one after      *)
(* another, the store holds exactly N event records under the pixel's      *)
(* prefix and the stored openCount is N.  Under SpecSeq the opens answered *)
(* so far are MaxRaceOpens - budget whenever none is in flight.            *)
(***************************************************************************)
C1_SequentialOpensCounted ==
    req = EmptyBag =>
        \A id \in Created :
            /\ Cardinality(EventKeysOf(store, id)) = MaxRaceOpens - budget
            /\ StoredMeta(id).openCount = MaxRaceOpens - budget

(***************************************************************************)
(* C2.  As claimed: a report request whose token is missing, empty or not  *)
(* the pixel's is answered 401, whether or not the pixel exists.           *)
(***************************************************************************)
C2_BadTokenAlways401 ==
    (out.kind = "report" /\ BadToken(out.id, out.token)) => out.resp.status = 401

(***************************************************************************)
(* C2, amended.  Such a request is answered 401 when a pixel with the      *)
(* requested id exists; when none exists it is answered 404, and 400 when  *)
(* the id segment is empty, whatever the token.                            *)
(***************************************************************************)
C2_BadTokenByExistence ==
    (out.kind = "report" /\ BadToken(out.id, out.token)) =>
        out.resp.status = (IF out.id = "" THEN 400
                           ELSE IF out.id \in Created THEN 401
                           ELSE 404)

C2_WrongTokenOnExistingPixel ==
    /\ out.kind = "report"
    /\ out.id \in Created
    /\ out.token \in Tokens
    /\ out.token # issued[out.id]
    /\ out.resp.status = 401

(***************************************************************************)
(* C3.  A report request carrying the token returned at creation, for a    *)
(* pixel no open has written anything for, succeeds with an empty event    *)
(* list and, in the JSON form, metadata whose openCount is 0 (in the CSV   *)
(* form, the header line alone).                                           *)
(***************************************************************************)
C3_NeverOpenedReport ==
    (/\ out.kind = "report"
     /\ out.id \in Created
     /\ out.token = issued[out.id]
     /\ EventKeysOf(store, out.id) = {}) =>
        /\ out.resp.status = 200
        /\ out.events = <<>>
        /\ out.format = "csv" => out.resp.body = JoinStrings(CsvHeader, ",")
        /\ out.format # "csv" =>
               /\ out.resp.body.events = <<>>
               /\ out.resp.body.meta.openCount = 0

C3_ReportOfFreshPixel ==
    /\ out.kind = "report"
    /\ out.id \in Created
    /\ out.token = issued[out.id]
    /\ EventKeysOf(store, out.id) = {}
    /\ out.format # "csv"
    /\ out.resp.body.meta.openCount = 0

(***************************************************************************)
(* C4.  The response of an open request is the fixed image response of its *)
(* method: the one an unknown id gets, whether or not the pixel exists.    *)
(***************************************************************************)
C4_OpenResponseFixed ==
    out.kind = "open" =>
        /\ out.resp = PixelResponse(<<>>, out.isHead)
        /\ out.resp.status = 200
        /\ out.resp.body = (IF out.isHead THEN NULL ELSE TRANSPARENT_GIF)
        /\ out.resp.headers.cacheControl = "no-store, must-revalidate"
        /\ out.resp.headers.contentType = "image/gif"

C4_OpenOfExistingPixel ==
    /\ out.kind = "open"
    /\ out.found
    /\ ~out.isHead
    /\ StoredMeta(out.id).openCount >= 1

C6_NoStoreDetailsInBody ==
    out.kind # "none" =>
        /\ ~Holds(BodyStrings(out.resp), StoredHashes \cup DOMAIN store)
        /\ (out.kind = "report" /\ out.resp.status = 200 /\ out.format # "csv") =>
               /\ DOMAIN out.resp.body.meta = DOMAIN out.loaded \ {"tokenHash"}
               /\ \A f \in DOMAIN out.resp.body.meta : out.resp.body.meta[f] = out.loaded[f]
               /\ \A f \in FrozenFields \ {"tokenHash"} :
                      out.resp.body.meta[f] = StoredMeta(out.id)[f]

C6_JsonReportWithEvents ==
    /\ out.kind = "report"
    /\ out.resp.status = 200
    /\ out.format # "csv"
    /\ out.resp.body.events # <<>>
    /\ out.resp.body.meta.openCount >= 1

(***************************************************************************)
(* C7.  A creation request whose API key is missing or is not the          *)
(* configured secret is answered 401 and leaves the store as it was.       *)
(***************************************************************************)
C7_RejectedCreationWritesNothing ==
    [][(/\ out'.kind = "create"
        /\ apiKey # ""
        /\ (out'.providedKey = NULL \/ out'.providedKey # apiKey)) =>
           /\ out'.resp.status = 401
           /\ store' = store]_vars

C7_RejectedWithPixelStored ==
    /\ out.kind = "create"
    /\ out.providedKey = "wrong-key"
    /\ out.resp.status = 401
    /\ Created # {}

(***************************************************************************)
(* C8.  As claimed: no step lowers a pixel's stored openCount.             *)
(***************************************************************************)
C8_OpenCountNeverDecreases ==
    [][\A id \in Created :
           StoredMeta(id)'.openCount >= StoredMeta(id).openCount]_vars

(***************************************************************************)
(* C8, amended.  Every write of a pixel's metadata by an open stores the   *)
(* openCount that open read plus one: the stored count rises by one when   *)
(* no other open wrote the metadata since that read, and it falls only     *)
(* when the open read it at least two completed increments ago.            *)
(***************************************************************************)
C8_OpenCountIsReadPlusOne ==
    [][\A id \in Created :
           \/ StoredMeta(id)' = StoredMeta(id)
           \/ \E q \in BagToSet(req) :
                  /\ q.pc = "stored" /\ q.id = id
                  /\ req' = Leave(q)
                  /\ StoredMeta(id)'.openCount = q.meta.openCount + 1
                  /\ q.meta.openCount = StoredMeta(id).openCount =>
                         StoredMeta(id)'.openCount = StoredMeta(id).openCount + 1
                  /\ StoredMeta(id)'.openCount < StoredMeta(id).openCount =>
                         q.meta.openCount + 2 <= StoredMeta(id).openCount]_vars

C8_StaleWriterPending ==
    \E q \in BagToSet(req) :
        /\ q.pc = "stored"
        /\ q.meta.openCount + 2 <= StoredMeta(q.id).openCount

(***************************************************************************)
(* C9.  Once an event record is written under a key, no later step changes *)
(* or removes the value under that key.                                    *)
(***************************************************************************)
C9_EventRecordsNeverOverwritten ==
    [][\A k \in EventKeys : k \in DOMAIN store' /\ store'[k] = store[k]]_vars

(***************************************************************************)
(* C10.  No step changes id, createdAt, label, metadata or tokenHash of a  *)
(* stored PixelMeta, or removes it; the only field a step adds to it is    *)
(* lastOpenedAt.                                                           *)
(***************************************************************************)
C10_CreationFieldsFrozen ==
    [][\A id \in Created :
           /\ metaKey(id) \in DOMAIN store'
           /\ \A f \in FrozenFields : StoredMeta(id)'[f] = StoredMeta(id)[f]
           /\ DOMAIN StoredMeta(id)' \subseteq DOMAIN StoredMeta(id) \cup {"lastOpenedAt"}
           /\ FrozenFields \subseteq DOMAIN StoredMeta(id)']_vars

C10_OpenedPixelKeepsLabel ==
    \E id \in Created :
        /\ StoredMeta(id).openCount >= 1
        /\ StoredMeta(id).label = "promo"
        /\ "lastOpenedAt" \in DOMAIN StoredMeta(id)

(***************************************************************************)
(* C11.  As claimed: the key of an event record is lexicographically       *)
(* greater than the key of every event record of the same pixel created    *)
(* before it.                                                              *)
(***************************************************************************)
C11_KeysInCreationOrder ==
    [][\A id \in Created :
           \A k \in NewEventKeys(id) : \A k0 \in EventKeysOf(store, id) : StrLess(k0, k)]_vars

(***************************************************************************)
(* C11, amended.  The key of an event record is lexicographically greater  *)
(* than the key of every event record of the same pixel whose key was      *)
(* built at an earlier millisecond of Date.now() (the readings having the  *)
(* same number of decimal digits); keys built within one millisecond are   *)
(* ordered by their random suffixes.                                       *)
(***************************************************************************)
C11_KeysInMillisecondOrder ==
    [][\A id \in Created :
           \A k \in NewEventKeys(id) :
               \A t0 \in Times, r0 \in Rnd :
                   EventKey(id, t0, r0) \in DOMAIN store =>
                       /\ t0 < now => StrLess(EventKey(id, t0, r0), k)
                       /\ t0 = now =>
                              \E r \in Rnd : /\ k = EventKey(id, now, r)
                                             /\ StrLess(EventKey(id, t0, r0), k) = StrLess(r0, r)]_vars

C11_LaterKeySmallerSuffix ==
    \E id \in Created, t0 \in Times, t1 \in Times, r0 \in Rnd, r1 \in Rnd :
        /\ t0 < t1 /\ StrLess(r1, r0)
        /\ {EventKey(id, t0, r0), EventKey(id, t1, r1)} \subseteq DOMAIN store
        /\ store[EventKey(id, t0, r0)].timestamp < store[EventKey(id, t1, r1)].timestamp

\* the positions of the dots of an address
Dots(ip) == {i \in 1 .. Len(ip) : ip[i] = "."}

LastDot(ip) == CHOOSE i \in Dots(ip) : \A j \in Dots(ip) : j <= i

(***************************************************************************)
(* C12.  anonymizeIp maps an input of exactly four dot-separated segments  *)
(* (three dots) to the input up to its last dot followed by 0, and maps a  *)
(* missing input and every input that has neither four dot-separated       *)
(* segments nor a colon to null.                                           *)
(***************************************************************************)
C12_LastOctetZeroed ==
    out.kind = "anonymizeIp" =>
        /\ Cardinality(Dots(out.ip)) = 3 =>
               out.result = Str(SubSeq(out.ip, 1, LastDot(out.ip))) \o "0"
        /\ (Cardinality(Dots(out.ip)) # 3 /\ \A i \in 1 .. Len(out.ip) : out.ip[i] # ":") =>
               out.result = NULL

C12_DottedQuadAnonymized ==
    /\ out.kind = "anonymizeIp"
    /\ out.ip = <<"1", ".", "f", ".", "1", ".", "f">>
    /\ out.result = "1.f.1.0"

CharAt(s, i) == SubSeq(s, i, i)

\* A CSV parser after RFC 4180.  A separator counts when it stands outside
\* quotes, that is after an even number of double quotes; records end at
\* such a line feed, fields at such a comma; a field that opens with a
\* double quote loses its enclosing quotes and has each pair of double
\* quotes inside it read as one
Outside(s, i) == Cardinality({j \in 1 .. (i - 1) : CharAt(s, j) = "\""}) % 2 = 0

Separators(s, c) == {i \in 1 .. Len(s) : CharAt(s, i) = c /\ Outside(s, i)}

NthOf(P, k) == CHOOSE p \in P : Cardinality({q \in P : q < p}) = k - 1

Pieces(s, c) ==
    LET P == Separators(s, c)
        n == Cardinality(P)
    IN  [k \in 1 .. (n + 1) |->
            SubSeq(s, IF k = 1 THEN 1 ELSE NthOf(P, k - 1) + 1,
                      IF k = n + 1 THEN Len(s) ELSE NthOf(P, k) - 1)]

RECURSIVE Undouble(_)
Undouble(s) ==
    IF s = "" THEN ""
    ELSE IF Len(s) >= 2 /\ SubSeq(s, 1, 2) = "\"\"" THEN "\"" \o Undouble(SubSeq(s, 3, Len(s)))
    ELSE CharAt(s, 1) \o Undouble(SubSeq(s, 2, Len(s)))

Unquote(raw) ==
    IF Len(raw) >= 2 /\ CharAt(raw, 1) = "\"" /\ CharAt(raw, Len(raw)) = "\""
    THEN Undouble(SubSeq(raw, 2, Len(raw) - 1))
    ELSE raw

ParseCsv(s) ==
    [r \in 1 .. Len(Pieces(s, "\n")) |->
        [f \in 1 .. Len(Pieces(Pieces(s, "\n")[r], ",")) |->
            Unquote(Pieces(Pieces(s, "\n")[r], ",")[f])]]

QuoteCount(s) == Cardinality({i \in 1 .. Len(s) : CharAt(s, i) = "\""})

(***************************************************************************)
(* C13.  In the CSV of an event whose referer contains a comma, the        *)
(* referer field is the referer enclosed in double quotes with each of its *)
(* double quotes doubled, and a CSV parser reads the referer back from the *)
(* fourth column of the event's row.                                       *)
(***************************************************************************)
C13_RefererRoundTrip ==
    (out.kind = "csv" /\ out.event.referer # NULL /\ Contains(out.event.referer, ",")) =>
        /\ Len(out.field) = Len(out.event.referer) + QuoteCount(out.event.referer) + 2
        /\ CharAt(out.field, 1) = "\"" /\ CharAt(out.field, Len(out.field)) = "\""
        /\ QuoteCount(out.field) = 2 * QuoteCount(out.event.referer) + 2
        /\ Len(ParseCsv(out.csv)) = 2
        /\ Len(ParseCsv(out.csv)[2]) = Len(CsvHeader)
        /\ ParseCsv(out.csv)[2][4] = out.event.referer

C13_CommaAndQuoteInReferer ==
    /\ out.kind = "csv"
    /\ out.event.referer = "a,\"a"
    /\ out.field = "\"a,\"\"a\""
    /\ ParseCsv(out.csv)[2][3] = "Mozilla/5.0 (X11, Linux)"

\* the status of a report by the id and the token alone
ReportStatusByToken(id, token) ==
    IF id = "" THEN 400
    ELSE IF id \notin Created THEN 404
    ELSE IF token # issued[id] THEN 401
    ELSE 200

(***************************************************************************)
(* C14.  While no API secret is configured, every creation request is      *)
(* answered 500 and leaves the store as it was; an open is answered with   *)
(* the fixed image response and, for a stored pixel, writes its metadata;  *)
(* a report is answered 400, 404, 401 or 200 by its id and token alone,    *)
(* as with the secret configured.                                          *)
(***************************************************************************)
C14_UnsetSecretStopsCreationOnly ==
    [][apiKey = "" =>
           /\ out'.kind = "create" => (out'.resp.status = 500 /\ store' = store)
           /\ out'.kind = "open" =>
                  /\ out'.resp = PixelResponse(<<>>, out'.isHead)
                  /\ out'.id \in Created =>
                         /\ store'[metaKey(out'.id)].openCount >= 1
                         /\ store'[metaKey(out'.id)].lastOpenedAt \in Times
                  /\ out'.id \notin Created => store' = store
           /\ out'.kind = "report" =>
                  /\ out'.resp.status = ReportStatusByToken(out'.id, out'.token)
                  /\ store' = store]_vars

C14_OpenedAndReportedUnset ==
    /\ apiKey = ""
    /\ out.kind = "report"
    /\ out.resp.status = 200
    /\ Len(out.events) >= 1

\* under SpecConc: the opens of the pixel that have written their metadata
OpensDone == MaxRaceOpens - budget - BagCardinality(req)

(***************************************************************************)
(* C15.  When opens of one pixel interleave and all run to their end, the  *)
(* stored openCount is at most the number of opens that have finished and  *)
(* at least 1 once one has; it falls short of that number in the lost      *)
(* update, where two opens read the same openCount before either writes:   *)
(* two event records, openCount raised by one.                             *)
(***************************************************************************)
C15_CountAtMostOpensDone ==
    \A id \in Created :
        /\ StoredMeta(id).openCount <= OpensDone
        /\ OpensDone >= 1 => StoredMeta(id).openCount >= 1

C15_LostUpdate ==
    \E id \in Created :
        /\ req = EmptyBag
        /\ OpensDone = 2
        /\ Cardinality(EventKeysOf(store, id)) = 2
        /\ StoredMeta(id).openCount = 1

\* the event keys of a pixel whose record a step writes
WrittenEventKeys(id) ==
    {k \in EventKeysOf(store', id) : k \notin DOMAIN store \/ store'[k] # store[k]}

(***************************************************************************)
(* C16.  An open of a stored pixel reads the metadata, then writes its     *)
(* event record, then writes the metadata: a step that writes an event     *)
(* record is taken by a request that has only read, and leaves the         *)
(* metadata alone; a step that changes the metadata is taken by a request  *)
(* that has written its event, stores the openCount it read plus one and   *)
(* its event's timestamp as lastOpenedAt, and leaves the event records     *)
(* alone; a request dropped between the two writes leaves the store as it  *)
(* is; and metadata with an openCount above 0 never stands without an      *)
(* event record of its pixel.                                              *)
(***************************************************************************)
C16_EventThenMetadata ==
    [][\A id \in Created :
           /\ WrittenEventKeys(id) # {} =>
                  /\ StoredMeta(id)' = StoredMeta(id)
                  /\ \E q \in BagToSet(req) :
                         /\ q.id = id /\ q.pc = "loaded"
                         /\ \E e \in {store'[k] : k \in WrittenEventKeys(id)} :
                                req' = Leave(q) (+) SetToBag({[pc |-> "stored", id |-> id,
                                                              meta |-> q.meta, event |-> e]})
           /\ StoredMeta(id)' # StoredMeta(id) =>
                  /\ WrittenEventKeys(id) = {}
                  /\ EventKeysOf(store, id) # {}
                  /\ \E q \in BagToSet(req) :
                         /\ q.id = id /\ q.pc = "stored" /\ req' = Leave(q)
                         /\ StoredMeta(id)'.openCount = q.meta.openCount + 1
                         /\ StoredMeta(id)'.lastOpenedAt = q.event.timestamp
           /\ (\E q \in BagToSet(req) : q.pc = "stored" /\ req' = Leave(q) /\ out' = NoOutput) =>
                  store' = store
           /\ StoredMeta(id).openCount >= 1 => EventKeysOf(store, id) # {}]_vars

C16_DroppedBetweenWrites ==
    \E id \in Created :
        /\ req = EmptyBag
        /\ budget < MaxPairOpens
        /\ EventKeysOf(store, id) # {}
        /\ StoredMeta(id).openCount = 0
        /\ "lastOpenedAt" \notin DOMAIN StoredMeta(id)

(***************************************************************************)
(* C17.  An open request for an id that has no metadata in the store       *)
(* leaves every key and value of the store as it was, and no request for   *)
(* such an id is ever left in flight to write later.                       *)
(***************************************************************************)
C17_UnknownOpenWritesNothing ==
    [][/\ (out'.kind = "open" /\ metaKey(out'.id) \notin DOMAIN store) =>
              (store' = store /\ req' = req)
       /\ \A q \in BagToSet(req') : metaKey(q.id) \in DOMAIN store]_vars

C17_UnknownOpenBesideStoredPixel ==
    /\ out.kind = "open"
    /\ out.id \notin Created
    /\ metaKey(out.id) \notin DOMAIN store
    /\ \E id \in Created : EventKeysOf(store, id) # {}

Ascending(events) ==
    \A i \in 1 .. (Len(events) - 1) : events[i].timestamp <= events[i + 1].timestamp

(***************************************************************************)
(* C18.  The event list of every successful report is in ascending order   *)
(* of timestamp, in whatever order the listing returned the keys.          *)
(***************************************************************************)
C18_ReportEventsAscending ==
    (out.kind = "report" /\ out.resp.status = 200) =>
        /\ Ascending(out.events)
        /\ out.format # "csv" =>
               (out.resp.body.events = out.events /\ Ascending(out.resp.body.events))

C18_TwoInstantsReported ==
    /\ out.kind = "report"
    /\ out.resp.status = 200
    /\ out.format # "csv"
    /\ Len(out.resp.body.events) = 2
    /\ out.resp.body.events[1].timestamp < out.resp.body.events[2].timestamp

\* the records a report returned, and those stored for its pixel
ReportedRecords == {out.events[i] : i \in 1 .. Len(out.events)}

StoredRecords(id) == {store[k] : k \in EventKeysOf(store, id)}

(***************************************************************************)
(* C19.  A report returns the records of one page of the listing: as many  *)
(* events as the pixel has event records when these are at most the page   *)
(* limit, and all of them; the page limit of events, records of the pixel, *)
(* when it has more.  Checked with the limit scaled down to PageLimit and  *)
(* each request running alone.                                             *)
(***************************************************************************)
C19_OnePageReported ==
    (out.kind = "report" /\ out.resp.status = 200) =>
        /\ Len(out.events) = Min2(Cardinality(EventKeysOf(store, out.id)), PageLimit)
        /\ ReportedRecords \subseteq StoredRecords(out.id)
        /\ Cardinality(EventKeysOf(store, out.id)) <= PageLimit =>
               ReportedRecords = StoredRecords(out.id)

C19_MoreRecordsThanPage ==
    /\ out.kind = "report"
    /\ out.resp.status = 200
    /\ Cardinality(EventKeysOf(store, out.id)) > PageLimit
    /\ Len(out.events) = PageLimit

(***************************************************************************)
(* C20.  A report request for an id that has no stored metadata is         *)
(* answered 404 "Pixel not found" whatever token it carries: a token       *)
(* issued for another pixel, one never issued, an empty one or none.       *)
(***************************************************************************)
C20_UnknownIdNotFound ==
    /\ (out.kind = "report" /\ out.id # "" /\ metaKey(out.id) \notin DOMAIN store) =>
           out.resp = TextResponse("Pixel not found", 404)
    /\ \A id \in PathIds \ {""}, t \in ProvidedTokens :
           metaKey(id) \notin DOMAIN store =>
               ReportEarly(id, t) = <<TextResponse("Pixel not found", 404)>>

C20_IssuedTokenUnknownId ==
    /\ out.kind = "report"
    /\ out.id # ""
    /\ metaKey(out.id) \notin DOMAIN store
    /\ \E id \in Created : out.token = issued[id]
    /\ out.resp.status = 404

(***************************************************************************)
(* C21.  In every reachable state, whatever the interleaving of creations, *)
(* opens and reports and wherever a request was dropped, the openCount     *)
(* stored for a pixel is at most the number of event records stored under  *)
(* the pixel's event prefix.                                               *)
(***************************************************************************)
C21_CountAtMostRecords ==
    \A id \in Created :
        StoredMeta(id).openCount <= Cardinality(EventKeysOf(store, id))

\* what the store holds for a pixel: its metadata and its event records
PixelState(s, id) ==
    [meta |-> s[metaKey(id)],
     events |-> [k \in EventKeysOf(s, id) |-> s[k]]]

\* the open requests that take the step: those that leave their place in req
ActingOpens == {q \in BagToSet(req) : CopiesIn(q, req') < CopiesIn(q, req)}

\* the step is storeEvent of an open of the pixel
StoreEventOf(id) == \E q \in ActingOpens : q.id = id /\ q.pc = "loaded"

\* the step is a store write of an open of the pixel: storeEvent or the put
\* of the metadata
OpenWriteOf(id) == \E q \in ActingOpens : q.id = id

(***************************************************************************)
(* C22.  Pixels are isolated from each other.  A store write of an open of *)
(* pixel A leaves the metadata and the event records of every other pixel  *)
(* B as they were; the event records under a pixel's prefix change only in *)
(* storeEvent of an open of that pixel, and no key lies under the prefixes  *)
(* of two pixels; and the events of a report for A are records stored      *)
(* under A's prefix, hence written by opens of A.                          *)
(***************************************************************************)
C22_PixelsIsolated ==
    [][/\ store' # store =>
              /\ \A a \in Created :
                     OpenWriteOf(a) =>
                         \A b \in Created \ {a} :
                             PixelState(store', b) = PixelState(store, b)
              /\ \A a \in Created :
                     PixelState(store', a).events # PixelState(store, a).events =>
                         StoreEventOf(a)
              /\ \A a \in Created :
                     \A b \in Created \ {a} :
                         EventKeysOf(store', a) \cap EventKeysOf(store', b) = {}
       /\ (rep.pc = "listed" /\ out'.kind = "report") =>
              \A i \in 1 .. Len(out'.events) :
                  \E k \in EventKeysOf(store, out'.id) : out'.events[i] = store[k]
      ]_vars

C22_ReportBesideOtherPixel ==
    /\ out.kind = "report"
    /\ out.resp.status = 200
    /\ Len(out.events) > 0
    /\ \E b \in Created \ {out.id} :
           /\ StoredMeta(b).openCount > 0
           /\ StoredRecords(b) # {}
           /\ StoredRecords(b) \cap ReportedRecords = {}

\* the step belongs to a report request: the request moves on, or is answered
ReportStep == rep' # rep \/ out'.kind = "report"

(***************************************************************************)
(* C23.  A report request never writes to the store: in each of its steps, *)
(* whether it ends in the report, 401, 404 or 400, every key and value of  *)
(* the store stays as it was, and so do openCount, lastOpenedAt and the    *)
(* event keys of every pixel.                                              *)
(***************************************************************************)
C23_ReportWritesNothing ==
    [][ReportStep =>
           /\ store' = store
           /\ \A id \in Created :
                  /\ store'[metaKey(id)] = StoredMeta(id)
                  /\ EventKeysOf(store', id) = EventKeysOf(store, id)
      ]_vars

C23_ReportOfOpenedPixel ==
    /\ out.kind = "report"
    /\ out.resp.status = 200
    /\ Len(out.events) > 0
    /\ StoredMeta(out.id).openCount > 0
    /\ "lastOpenedAt" \in DOMAIN StoredMeta(out.id)
    /\ StoredMeta(out.id) = out.loaded

\* the tokens issued for the other pixels
OtherTokens(id) == {issued[b] : b \in Created \ {id}}

(***************************************************************************)
(* C24.  A report for pixel A is returned only when the token supplied is  *)
(* non-empty and its hash is the tokenHash stored for A, which is the case *)
(* only for the token issued at A's creation.  The token issued for        *)
(* another pixel and the creation API key are answered 401 for A, and the  *)
(* token issued at A's creation is accepted in every reachable state,      *)
(* whatever opens the pixel has had.                                       *)
(***************************************************************************)
C24_OnlyOwnTokenAuthorizes ==
    /\ (out.kind = "report" /\ out.resp.status = 200) =>
           /\ out.token # NULL /\ out.token # ""
           /\ out.id \in Created
           /\ sha256Hex(out.token) = StoredMeta(out.id).tokenHash
           /\ out.token = issued[out.id]
    /\ (out.kind = "report" /\ out.id \in Created
            /\ out.token \in OtherTokens(out.id) \cup {Secret}) =>
           out.resp = TextResponse("Unauthorized", 401)
    /\ (out.kind = "report" /\ out.id \in Created /\ out.token = issued[out.id]) =>
           out.resp.status = 200
    /\ \A a \in Created :
           /\ ReportEarly(a, issued[a]) = <<>>
           /\ \A t \in OtherTokens(a) \cup {Secret} :
                  ReportEarly(a, t) = <<TextResponse("Unauthorized", 401)>>

C24_OtherPixelsTokenRefused ==
    /\ out.kind = "report"
    /\ out.id \in Created
    /\ out.token \in OtherTokens(out.id)
    /\ out.resp.status = 401
    /\ StoredMeta(out.id).openCount > 0

====
